---- MODULE Spec2Model ----
(***************************************************************************)
(* A model of raster-tile-query (src/index.js): zoom estimation, the       *)
(* partition of query points into tiles, the concurrent tile load through  *)
(* a caller-supplied loader, per-tile pixel sampling and the assembly of   *)
(* the samples in input order.                                             *)
(*                                                                         *)
(* JavaScript values.  Numbers are integers plus the two values NaN and    *)
(* Undefined.  Arrays are sequences; JavaScript index k is index k+1 here. *)
(* A query point as given to loadTiles / estimateZoom is <<lat, lng>>.     *)
(* Errors are their message strings; "null" is the absent error.           *)
(***************************************************************************)
EXTENDS Integers, Sequences, FiniteSets, TLC

\* ------------------------------------------------------------- bounds
\* Longest list of query points drawn as an input.
MaxPoints == 3
\* Deepest zoom level of the pyramid used by the inputs.
MaxZoomLevel == 2

\* ------------------------------------------------- JavaScript numbers
NaN == -1000000
Undefined == -2000000

IsNum(v) == v # NaN /\ v # Undefined

\* a - b, a * b: NaN as soon as an operand is NaN or undefined
Sub(a, b) == IF IsNum(a) /\ IsNum(b) THEN a - b ELSE NaN
Mul(a, b) == IF IsNum(a) /\ IsNum(b) THEN a * b ELSE NaN

\* a > b, a < b, a >= b: false as soon as an operand is NaN or undefined
Gt(a, b) == IsNum(a) /\ IsNum(b) /\ a > b
Lt(a, b) == IsNum(a) /\ IsNum(b) /\ a < b
Ge(a, b) == IsNum(a) /\ IsNum(b) /\ a >= b

\* array[k] of JavaScript, k counted from 1 here: undefined past the end
At(arr, k) == IF k \in 1..Len(arr) THEN arr[k] ELSE Undefined

\* v || dflt for a number v: 0, NaN and undefined are falsy
OrElse(v, dflt) == IF v = 0 \/ ~IsNum(v) THEN dflt ELSE v

Pow2(k) == 2 ^ k

\* ------------------------------------------------ inputs of the model
\* Query points <<lat, lng>>.  PA lies in the western hemisphere, PB and PC
\* share a longitude; PB and PA share a latitude.
PA == <<40, -100>>
PB == <<40, 90>>
PC == <<-30, 90>>
\* A point that is not a 2-element coordinate.
PEmpty == << >>

ValidPoints == {PA, PB, PC}
Malformed == {PEmpty}
AllPoints == ValidPoints \cup Malformed

RECURSIVE SeqsUpTo(_, _)
SeqsUpTo(S, n) ==
    IF n = 0 THEN {<< >>}
    ELSE LET shorter == SeqsUpTo(S, n - 1)
         IN  shorter \cup {Append(s, x) : s \in {t \in shorter : Len(t) = n - 1}, x \in S}

\* Lists of points of length 0..MaxPoints
PointLists == SeqsUpTo(AllPoints, MaxPoints)

IsValidPoint(p) == Len(p) = 2
AllValid(points) == \A k \in 1..Len(points) : IsValidPoint(points[k])

\* options.tileSize || 256
DefaultTileSize == 256
\* The other tile size in use
BigTileSize == 2 * DefaultTileSize
TileSizes == {DefaultTileSize, BigTileSize}

\* ------------------------------------- projection adapter (sm, size s)
\* Mercator ordinate of a latitude as a fraction of the world's height, in
\* units of 1e-5: ln(tan(pi/4 + lat/2)) / (2 pi), for the latitudes of the
\* inputs.
MercE5(lat) ==
    CASE lat = 40 -> 12142
      [] lat = -30 -> -8742
      [] lat = 0 -> 0

\* sm.px([lng, lat], zoom): the global pixel of a point, Math.round of
\* d + lng * Bc and d - merc * 2 pi * Cc, with d = S/2, Bc = S/360,
\* Cc = S/(2 pi), S = size * 2^zoom; each coordinate is clamped above by S.
\* An undefined coordinate or a zoom the adapter has no table for gives NaN.
px(size, ll, zoom) ==
    LET lng == At(ll, 1)
        lat == At(ll, 2)
        ok  == IsNum(zoom) /\ zoom >= 0
        S   == size * Pow2(zoom)
        x0  == (2 * S * (180 + lng) + 360) \div 720
        y0  == (S * 100000 - 2 * MercE5(lat) * S + 100000) \div 200000
    IN  << IF ok /\ IsNum(lng) THEN (IF x0 > S THEN S ELSE x0) ELSE NaN,
           IF ok /\ IsNum(lat) THEN (IF y0 > S THEN S ELSE y0) ELSE NaN >>

\* Math.floor(v / size)
FloorDiv(v, size) == IF IsNum(v) THEN v \div size ELSE NaN

\* Math.min(a, b) < 0 ? 0 : Math.min(a, b)
MinClamped(a, b) ==
    IF ~IsNum(a) \/ ~IsNum(b) THEN NaN
    ELSE LET m == IF a < b THEN a ELSE b IN IF m < 0 THEN 0 ELSE m

\* sm.xyz([w, s, e, n], zoom): the tile range of a bounding box; the code
\* reads minX and minY only.
xyz(size, bbox, zoom) ==
    LET px_ll == px(size, <<At(bbox, 1), At(bbox, 2)>>, zoom)
        px_ur == px(size, <<At(bbox, 3), At(bbox, 4)>>, zoom)
    IN  [minX |-> MinClamped(FloorDiv(px_ll[1], size),
                             FloorDiv(Sub(px_ur[1], 1), size)),
         minY |-> MinClamped(FloorDiv(px_ur[2], size),
                             FloorDiv(Sub(px_ll[2], 1), size))]

\* sm.forward([lng, lat]): projected metres, here in units of 1/36000000 of
\* the world's width (only differences and ratios of them are used), clamped
\* to the world's extent.
Clamp(v, lo, hi) == IF v > hi THEN hi ELSE IF v < lo THEN lo ELSE v

forward(ll) ==
    LET lng == At(ll, 1)
        lat == At(ll, 2)
    IN  << IF IsNum(lng) THEN Clamp(lng * 100000, -18000000, 18000000) ELSE NaN,
           IF IsNum(lat) THEN Clamp(MercE5(lat) * 360, -18000000, 18000000) ELSE NaN >>

\* ------------------------------------------------------------ tiles
\* The bytes a tile carries: nothing yet (undefined), '' or an image of
\* w x h pixels.
NoData == [kind |-> "undefined", w |-> 0, h |-> 0]
EmptyData == [kind |-> "empty", w |-> 0, h |-> 0]
Image(w, h) == [kind |-> "image", w |-> w, h |-> h]

\* What a loader returns for a tile: a well-formed tile image or a non-square
\* one.
Images == {Image(DefaultTileSize, DefaultTileSize),
           Image(DefaultTileSize, DefaultTileSize \div 2)}

\* ------------------------------------------------------- buildQuery
\* The tile object created on first sight of a tile (lines 118-128); data
\* and empty are not set yet (undefined, which is falsy).
NewTileObj(zoom, t, p, id) ==
    [zxy |-> [z |-> zoom, x |-> t.minX, y |-> t.minY],
     points |-> << <<At(p, 2), At(p, 1)>> >>,
     pointIDs |-> <<id>>,
     data |-> NoData,
     empty |-> FALSE]

\* The tile of point p at zoom: sm.xyz([p[1], p[0], p[1], p[0]], zoom)
TileOf(size, p, zoom) ==
    xyz(size, <<At(p, 2), At(p, 1), At(p, 2), At(p, 1)>>, zoom)

\* Faulty variant of Lookup: the key leaves out minY.
LookupIgnoresY(output, zoom, t) ==
    LET hits == {j \in 1..Len(output) :
                    /\ output[j].zxy.z = zoom
                    /\ output[j].zxy.x = t.minX}
    IN  IF hits = {} THEN 0 ELSE CHOOSE j \in hits : TRUE

\* Position in output of the tile object stored under tileName, 0 if none.
\* tileName is zoom + '/' + minX + '/' + minY; a NaN prints as 'NaN'.
Lookup(output, zoom, t) ==
    LET hits == {j \in 1..Len(output) :
                    /\ output[j].zxy.z = zoom
                    /\ output[j].zxy.x = t.minX
                    /\ output[j].zxy.y = t.minY}
    IN  IF hits = {} THEN 0 ELSE CHOOSE j \in hits : TRUE

\* Faulty variant of buildStep: a point of a tile seen before is dropped.
buildStepSkipRepeat(size, output, p, id, zoom) ==
    LET t == TileOf(size, p, zoom)
        j == Lookup(output, zoom, t)
    IN  IF j = 0 THEN Append(output, NewTileObj(zoom, t, p, id)) ELSE output

\* Faulty variant of buildStep: a tile seen before gets the id, not the point.
buildStepIdOnly(size, output, p, id, zoom) ==
    LET t == TileOf(size, p, zoom)
        j == Lookup(output, zoom, t)
    IN  IF j = 0
        THEN Append(output, NewTileObj(zoom, t, p, id))
        ELSE [output EXCEPT ![j].pointIDs = Append(@, id)]

\* One turn of the loop of buildQuery for the point of JavaScript index id.
buildStep(size, output, p, id, zoom) ==
    LET t == TileOf(size, p, zoom)
        j == Lookup(output, zoom, t)
    IN  IF j = 0
        THEN Append(output, NewTileObj(zoom, t, p, id))
        ELSE [output EXCEPT ![j].points = Append(@, <<At(p, 2), At(p, 1)>>),
                            ![j].pointIDs = Append(@, id)]

RECURSIVE buildLoop(_, _, _, _, _)
buildLoop(size, points, zoom, k, output) ==
    IF k > Len(points) THEN output
    ELSE buildLoop(size, points, zoom, k + 1,
                   buildStep(size, output, points[k], k - 1, zoom))

buildQuery(size, points, zoom) == buildLoop(size, points, zoom, 1, << >>)

\* ---------------------------------------------------- estimateZoom
\* One turn of the reduce of getExtent: bounds is [0],[1],[2],[3] of the code.
extentStep(bounds, b) ==
    LET b0 == At(b, 1)
        b1 == At(b, 2)
        lo0 == IF Gt(bounds[1], b0) THEN b0 ELSE bounds[1]
        hi0 == IF ~Gt(bounds[1], b0) /\ Lt(bounds[3], b0) THEN b0 ELSE bounds[3]
        lo1 == IF Gt(bounds[2], b1) THEN b1 ELSE bounds[2]
        hi1 == IF ~Gt(bounds[2], b1) /\ Lt(bounds[4], b1) THEN b1 ELSE bounds[4]
    IN  <<lo0, lo1, hi0, hi1>>

RECURSIVE extentLoop(_, _, _)
extentLoop(points, k, bounds) ==
    IF k > Len(points) THEN bounds
    ELSE extentLoop(points, k + 1, extentStep(bounds, points[k]))

\* getExtent(points) for two points or more (reduce without a seed starts at
\* the second element)
getExtent(points) ==
    extentLoop(points, 2, <<At(points[1], 1), At(points[1], 2),
                            At(points[1], 1), At(points[1], 2)>>)

\* Math.ceil(log2(num / den)) for num, den > 0: the least k with
\* num / den <= 2^k, searched upward from -12.
RECURSIVE CeilLog2From(_, _, _)
CeilLog2From(k, num, den) ==
    IF k >= 12 THEN 12
    ELSE IF (k < 0 /\ num * Pow2(-k) <= den) \/ (k >= 0 /\ num <= den * Pow2(k))
         THEN k
         ELSE CeilLog2From(k + 1, num, den)

CeilLog2(num, den) == CeilLog2From(-12, num, den)

\* Math.ceil(num / den) for den > 0
CeilDiv(num, den) == -((-num) \div den)

\* estimatePixelSnap: 170.10225756 is taken as 170.10 (num and den in 1/100).
\* With xRange + yRange = 0 the quotient is 0/0 = NaN, and so is the result.
estimatePixelSnap(extent, smExtent, queryLength, tileSize) ==
    LET xRange == Sub(smExtent.upperRight[1], smExtent.lowerLeft[1])
        yRange == Sub(smExtent.upperRight[2], smExtent.lowerLeft[2])
        total  == IF IsNum(xRange) /\ IsNum(yRange) THEN xRange + yRange ELSE NaN
    IN  IF Gt(xRange, yRange)
        THEN CeilLog2(360, extent[4] - extent[2])
        ELSE IF ~IsNum(total) \/ total = 0 \/ ~IsNum(Sub(extent[3], extent[1]))
             THEN NaN
             ELSE CeilLog2(17010 * CeilDiv(yRange * queryLength * 2, total),
                           (extent[3] - extent[1]) * tileSize * 100)

\* The clamp of lines 184-188
clampZoom(estZ, minZoom, maxZoom) ==
    IF Gt(estZ, maxZoom) THEN maxZoom
    ELSE IF Lt(estZ, minZoom) THEN minZoom
    ELSE estZ

estimateZoom(queryPoints, minZoom, maxZoom, tileSize) ==
    IF Len(queryPoints) = 1 THEN maxZoom
    ELSE LET extent == getExtent(queryPoints)
             smExtent == [lowerLeft |-> forward(<<extent[2], extent[1]>>),
                          upperRight |-> forward(<<extent[4], extent[3]>>)]
         IN  clampZoom(estimatePixelSnap(extent, smExtent, Len(queryPoints), tileSize),
                       minZoom, maxZoom)

\* ------------------------------------------------------- sampling
NullPixel == [kind |-> "null", x |-> 0, y |-> 0]
UndefinedPixel == [kind |-> "undefined", x |-> 0, y |-> 0]

\* image.getPixel(x, y, {get_color: true}): the colour at (x, y), which the
\* model identifies with its position; undefined outside the image.  A NaN
\* argument (a tile at zoom NaN) is read as the integer 0, as the decoder's
\* binding converts its arguments.
getPixel(image, x, y) ==
    LET xi == IF IsNum(x) THEN x ELSE 0
        yi == IF IsNum(y) THEN y ELSE 0
    IN  IF xi >= 0 /\ xi < image.w /\ yi >= 0 /\ yi < image.h
        THEN [kind |-> "colour", x |-> xi, y |-> yi]
        ELSE UndefinedPixel

getPixelXY(tileX, tileY, pixel) ==
    [x |-> Sub(pixel[1], tileX), y |-> Sub(pixel[2], tileY)]

\* Faulty variant of Sample: lat and lng exchanged.
SampleSwapped(pixel, coord, id) ==
    [pixel |-> pixel,
     latlng |-> [lat |-> At(coord, 1), lng |-> At(coord, 2)],
     id |-> id]

\* The sample pushed for coords[k] (lines 67-74 and 84-91)
Sample(pixel, coord, id) ==
    [pixel |-> pixel,
     latlng |-> [lat |-> At(coord, 2), lng |-> At(coord, 1)],
     id |-> id]

Ok(out) == [err |-> "null", out |-> out]
Err(msg) == [err |-> msg, out |-> << >>]

\* A number as string concatenation prints it
Str(v) == IF v = NaN THEN "NaN" ELSE IF v = Undefined THEN "undefined" ELSE ToString(v)

\* The messages of the errors of lines 54 and 56
InvalidTile(zxy) ==
    "Invalid tile at " \o Str(zxy.z) \o "/" \o Str(zxy.x) \o "/" \o Str(zxy.y)

SizeMismatch(tileSize, image) ==
    "Tilesize " \o Str(tileSize) \o " does not match image dimensions "
        \o Str(image.w) \o "x" \o Str(image.h)

OutOfTile == "Coordinates are not in tile"

RECURSIVE getPixelsLoop(_, _, _, _, _, _, _, _)
getPixelsLoop(size, image, coords, zxy, tileSize, ids, k, output) ==
    IF k > Len(coords) THEN Ok(output)
    ELSE LET pCoords == px(size, coords[k], zxy.z)
             xy == getPixelXY(Mul(zxy.x, tileSize), Mul(zxy.y, tileSize), pCoords)
         IN  IF Ge(xy.x, tileSize) \/ Ge(xy.y, tileSize)
             THEN Err(OutOfTile)
             ELSE getPixelsLoop(size, image, coords, zxy, tileSize, ids, k + 1,
                     Append(output, Sample(getPixel(image, xy.x, xy.y),
                                           coords[k], At(ids, k))))

\* Faulty variant of getPixels: the image is not compared with tileSize.
getPixelsAnySize(size, imageBuffer, coords, zxy, tileSize, ids) ==
    IF imageBuffer.w # imageBuffer.h THEN Err(InvalidTile(zxy))
    ELSE getPixelsLoop(size, imageBuffer, coords, zxy, tileSize, ids, 1, << >>)

\* getPixels(imageBuffer, coords, zxy, tileSize, ids, callback): what the
\* callback receives, with the adapter sm of the given size.
getPixels(size, imageBuffer, coords, zxy, tileSize, ids) ==
    IF imageBuffer.w # imageBuffer.h THEN Err(InvalidTile(zxy))
    ELSE IF imageBuffer.w # tileSize THEN Err(SizeMismatch(tileSize, imageBuffer))
    ELSE getPixelsLoop(size, imageBuffer, coords, zxy, tileSize, ids, 1, << >>)

emptyPixelResponse(coords, ids) ==
    Ok([k \in 1..Len(coords) |-> Sample(NullPixel, coords[k], At(ids, k))])

\* Faulty variant of sortCallback: the order reversed.
sortCallbackReversed(a, b) ==
    LET ad == OrElse(a.id, 0)
        bd == OrElse(b.id, 0)
    IN  IF ad > bd THEN -1 ELSE IF ad < bd THEN 1 ELSE 0

\* sortBy('id'): the comparator
sortCallback(a, b) ==
    LET ad == OrElse(a.id, 0)
        bd == OrElse(b.id, 0)
    IN  IF ad < bd THEN -1 ELSE IF ad > bd THEN 1 ELSE 0

\* Array.prototype.sort with the comparator: a stable insertion sort
RECURSIVE Insert(_, _)
Insert(sorted, e) ==
    IF sorted = << >> THEN <<e>>
    ELSE IF sortCallback(sorted[Len(sorted)], e) > 0
         THEN Append(Insert(SubSeq(sorted, 1, Len(sorted) - 1), e), sorted[Len(sorted)])
         ELSE Append(sorted, e)

RECURSIVE SortFrom(_, _, _)
SortFrom(arr, k, sorted) ==
    IF k > Len(arr) THEN sorted ELSE SortFrom(arr, k + 1, Insert(sorted, arr[k]))

Sort(arr) == SortFrom(arr, 1, << >>)

\* dataOutput.concat.apply(dataOutput, queries)
RECURSIVE Concat(_)
Concat(queries) ==
    IF queries = << >> THEN << >> ELSE Head(queries) \o Concat(Tail(queries))

\* queriesDone(err, queries)
queriesDone(err, queries) ==
    IF err # "null" THEN Err(err) ELSE Ok(Sort(Concat(queries)))

\* The task multiQuery defers for one tile object, run to its callback
sampleTile(size, t, imageSize) ==
    IF t.empty THEN emptyPixelResponse(t.points, t.pointIDs)
    ELSE getPixels(size, t.data, t.points, t.zxy, imageSize, t.pointIDs)

\* Faulty variant of queryQueue: a tile whose sampling fails is left out.
RECURSIVE queryQueueSkipsFailed(_, _, _, _, _)
queryQueueSkipsFailed(size, tiles, imageSize, k, results) ==
    IF k > Len(tiles) THEN [err |-> "null", results |-> results]
    ELSE LET r == sampleTile(size, tiles[k], imageSize)
         IN  queryQueueSkipsFailed(size, tiles, imageSize, k + 1,
                 IF r.err # "null" THEN results ELSE Append(results, r.out))

\* queryQueue: each task calls back before defer returns, so the tasks run in
\* order; once one has failed the queue keeps its error and defer starts no
\* further task.  The result is what awaitAll hands to queriesDone.
RECURSIVE queryQueue(_, _, _, _, _)
queryQueue(size, tiles, imageSize, k, results) ==
    IF k > Len(tiles) THEN [err |-> "null", results |-> results]
    ELSE LET r == sampleTile(size, tiles[k], imageSize)
         IN  IF r.err # "null" THEN [err |-> r.err, results |-> << >>]
             ELSE queryQueue(size, tiles, imageSize, k + 1, Append(results, r.out))

\* multiQuery(tileQuerier, imageSize, callback): what the callback receives
multiQuery(size, tiles, imageSize) ==
    LET q == queryQueue(size, tiles, imageSize, 1, << >>)
    IN  queriesDone(q.err, q.results)

\* ------------------------------------------------------- loadTiles
\* The options of the queries: each zoom bound present or not, the zoom pinned
\* or estimated, the tile size left to its default.
OptionSets == [minZoom : {Undefined, 0},
               maxZoom : {Undefined, MaxZoomLevel},
               zoom : {Undefined, MaxZoomLevel},
               tileSize : {Undefined}]

\* Errors a loader reports other than 'Tile does not exist'
HardErrors == {"ECONNRESET", "ETIMEDOUT"}
NotFound == "Tile does not exist"
NoDataError == "No tiles have any data"

\* Faulty variant of validate: minZoom is not looked at.
validateNoMinZoom(queryPoints, options) ==
    IF Len(queryPoints[1]) = 0 THEN "Invalid query points"
    ELSE IF options.maxZoom = Undefined THEN "Max zoom must be specified"
    ELSE "null"

\* Lines 194-198 for a list with a first element: the error handed to the
\* callback, "null" when the call goes on.
validate(queryPoints, options) ==
    IF Len(queryPoints[1]) = 0 THEN "Invalid query points"
    ELSE IF options.maxZoom = Undefined THEN "Max zoom must be specified"
    ELSE IF options.minZoom = Undefined THEN "Min zoom must be specified"
    ELSE "null"

\* Faulty variant of loadTileAsync: not-found tiles are not counted.
loadTileAsyncNoCount(tileObj, err, data, nullcount, n) ==
    IF err = NotFound
    THEN [tileObj |-> [tileObj EXCEPT !.data = EmptyData, !.empty = TRUE],
          nullcount |-> nullcount, err |-> "null"]
    ELSE IF err # "null"
    THEN [tileObj |-> tileObj, nullcount |-> nullcount, err |-> err]
    ELSE [tileObj |-> [tileObj EXCEPT !.data = data],
          nullcount |-> nullcount, err |-> "null"]

\* Faulty variant of loadTileAsync: 'Tile does not exist' is an error like any
\* other.
loadTileAsyncEscalates(tileObj, err, data, nullcount, n) ==
    IF err # "null"
    THEN [tileObj |-> tileObj, nullcount |-> nullcount, err |-> err]
    ELSE [tileObj |-> [tileObj EXCEPT !.data = data],
          nullcount |-> nullcount, err |-> "null"]

\* Faulty variant of loadTileAsync: a tile marked empty loses its points.
loadTileAsyncClearsPoints(tileObj, err, data, nullcount, n) ==
    IF err = NotFound
    THEN [tileObj |-> [tileObj EXCEPT !.data = EmptyData, !.empty = TRUE,
                                      !.points = << >>],
          nullcount |-> nullcount + 1,
          err |-> IF nullcount + 1 = n THEN NoDataError ELSE "null"]
    ELSE IF err # "null"
    THEN [tileObj |-> tileObj, nullcount |-> nullcount, err |-> err]
    ELSE [tileObj |-> [tileObj EXCEPT !.data = data],
          nullcount |-> nullcount, err |-> "null"]

\* The callback loadTileAsync hands to loadFunction (lines 215-229), called
\* with (err, data): the tile object and nullcount it leaves, and the error
\* it hands to the task's callback.  n is tileQuerier.length.
loadTileAsync(tileObj, err, data, nullcount, n) ==
    IF err = NotFound
    THEN [tileObj |-> [tileObj EXCEPT !.data = EmptyData, !.empty = TRUE],
          nullcount |-> nullcount + 1,
          err |-> IF nullcount + 1 = n THEN NoDataError ELSE "null"]
    ELSE IF err # "null"
    THEN [tileObj |-> tileObj, nullcount |-> nullcount, err |-> err]
    ELSE [tileObj |-> [tileObj EXCEPT !.data = data],
          nullcount |-> nullcount, err |-> "null"]

\* Faulty variant of queueCallback: an error is kept until every task has
\* called back.
queueCallbackWaits(q, i, e) ==
    IF q.error # "null" THEN [q |-> [q EXCEPT !.remaining = @ - 1],
                              notify |-> q.remaining - 1 = 0]
    ELSE IF e # "null"
    THEN [q |-> [q EXCEPT !.error = e, !.remaining = @ - 1],
          notify |-> q.remaining - 1 = 0]
    ELSE [q |-> [q EXCEPT !.tasks[i] = "tileObj", !.remaining = @ - 1],
          notify |-> q.remaining - 1 = 0]

\* loadQueue: the callback the queue gives task i, called with error e.  Once
\* the queue holds an error every later call is dropped; a first error is
\* kept, remaining becomes NaN and the awaiting callback is notified at once;
\* a result is stored in its slot and the callback is notified when no task
\* remains.  q is [error, remaining, tasks]; notify says whether the awaiting
\* callback is called.
queueCallback(q, i, e) ==
    IF q.error # "null" THEN [q |-> q, notify |-> FALSE]
    ELSE IF e # "null"
    THEN [q |-> [q EXCEPT !.error = e, !.remaining = NaN], notify |-> TRUE]
    ELSE [q |-> [q EXCEPT !.tasks[i] = "tileObj", !.remaining = @ - 1],
          notify |-> q.remaining - 1 = 0]

VARIABLES
    sm,           \* the module's adapter: its size, Undefined before the first use
    pc,           \* "idle", "loading", "settled", "sampled", "done"
    queryPoints,  \* the points of the call
    options,      \* the options of the call
    zoom,         \* the zoom loadTiles resolved / estimateZoom returned
    tileSize,     \* the tile size loadTiles resolved
    tileQuerier,  \* the tile objects of the call
    loaderCalls,  \* the zxy of every loader invocation, in order
    reports,      \* per tile: the (err, data) its loader call answered, or Pending
    nullcount,    \* the not-found tiles counted so far
    loadQueue,    \* [error, remaining, tasks] of the load queue
    cbCalls,      \* what the callback of loadTiles received, call by call
    thrown,       \* the call threw instead of returning
    imageSize,    \* the imageSize multiQuery was given
    mqCalls,      \* what the callback of multiQuery received, call by call
    calls         \* the operations called so far and the adapter each one used

vars == <<sm, pc, queryPoints, options, zoom, tileSize, tileQuerier, loaderCalls,
          reports, nullcount, loadQueue, cbCalls, thrown, imageSize, mqCalls, calls>>

NoOptions == [minZoom |-> Undefined, maxZoom |-> Undefined,
              zoom |-> Undefined, tileSize |-> Undefined]
EmptyQueue == [error |-> "null", remaining |-> 0, tasks |-> << >>]

\* What a loader invocation has answered
Pending == [err |-> "pending", data |-> NoData]
Answer(err, data) == [err |-> err, data |-> data]

CbErr(e) == [err |-> e, hasRes |-> FALSE, res |-> << >>]
CbOk(res) == [err |-> "null", hasRes |-> TRUE, res |-> res]

\* Faulty variant of loaderInvocations: a queue that starts one task at a
\* time, so that only the first tile is asked for before an answer comes.
loaderInvocationsOneAtATime(tq) ==
    [i \in 1..(IF Len(tq) > 1 THEN 1 ELSE Len(tq)) |-> tq[i].zxy]

\* The loader invocations of lines 232-236: the queue has no limit of
\* parallelism, so defer starts loadTileAsync for each tile object at once,
\* which calls loadFunction with the tile's zxy (line 215)
loaderInvocations(tq) == [i \in 1..Len(tq) |-> tq[i].zxy]

\* An operation called with tile size given (undefined for buildQuery, which
\* takes none): whether it projects a point and the adapter sm holds when it
\* does, undefined if none was built
Projecting(op, given, adapter) ==
    [op |-> op, given |-> given, adapter |-> adapter, projects |-> TRUE]
NotProjecting(op, given) ==
    [op |-> op, given |-> given, adapter |-> Undefined, projects |-> FALSE]

\* getPixels reaches sm.px: the image passes lines 53-57 and there is a point
getPixelsProjects(imageBuffer, coords, size) ==
    imageBuffer.w = imageBuffer.h /\ imageBuffer.w = size /\ coords # << >>

\* No call in progress
Fresh ==
    /\ pc = "idle"
    /\ queryPoints = << >>
    /\ options = NoOptions
    /\ zoom = Undefined
    /\ tileSize = Undefined
    /\ tileQuerier = << >>
    /\ loaderCalls = << >>
    /\ reports = << >>
    /\ nullcount = 0
    /\ loadQueue = EmptyQueue
    /\ cbCalls = << >>
    /\ thrown = FALSE
    /\ imageSize = Undefined
    /\ mqCalls = << >>

Init == sm = Undefined /\ calls = << >> /\ Fresh

\* loadTiles(points, opts, loadFunction, callback) up to its return: the
\* validation, the adapter, the zoom, the partition, one loader invocation per
\* tile object (defer starts each task at once) and awaitAll.
LoadTilesCall(points, opts) ==
    /\ pc = "idle"
    /\ queryPoints' = points
    /\ options' = opts
    /\ UNCHANGED <<imageSize, mqCalls>>
    /\ IF points = << >>
       THEN \* queryPoints[0] is undefined: reading its length throws
            /\ thrown' = TRUE
            /\ pc' = "done"
            /\ calls' = Append(calls, NotProjecting("loadTiles", opts.tileSize))
            /\ UNCHANGED <<sm, zoom, tileSize, tileQuerier, loaderCalls, reports,
                           nullcount, loadQueue, cbCalls>>
       ELSE IF validate(points, opts) # "null"
       THEN /\ cbCalls' = <<CbErr(validate(points, opts))>>
            /\ pc' = "done"
            /\ calls' = Append(calls, NotProjecting("loadTiles", opts.tileSize))
            /\ UNCHANGED <<sm, zoom, tileSize, tileQuerier, loaderCalls, reports,
                           nullcount, loadQueue, thrown>>
       ELSE LET ts == OrElse(opts.tileSize, DefaultTileSize)
                adapter == IF sm = Undefined THEN ts ELSE sm
                z == IF opts.zoom # Undefined THEN opts.zoom
                     ELSE estimateZoom(points, opts.minZoom, opts.maxZoom, ts)
                tq == buildQuery(adapter, points, z)
            IN  /\ sm' = adapter
                /\ tileSize' = ts
                /\ zoom' = z
                /\ tileQuerier' = tq
                /\ loaderCalls' = loaderInvocations(tq)
                /\ reports' = [i \in 1..Len(tq) |-> Pending]
                /\ nullcount' = 0
                /\ loadQueue' = [error |-> "null", remaining |-> Len(tq),
                                 tasks |-> [i \in 1..Len(tq) |-> "deferred"]]
                /\ pc' = "loading"
                /\ calls' = Append(calls, Projecting("loadTiles", ts, adapter))
                /\ UNCHANGED <<cbCalls, thrown>>

\* The loader answers invocation i with (err, data): loadTileAsync's callback,
\* the queue's callback and, when the queue notifies, the caller's callback.
LoaderAnswers(i, err, data) ==
    /\ pc = "loading"
    /\ i \in 1..Len(tileQuerier)
    /\ reports[i] = Pending
    /\ LET r == loadTileAsync(tileQuerier[i], err, data, nullcount, Len(tileQuerier))
           c == queueCallback(loadQueue, i, r.err)
           tq == [tileQuerier EXCEPT ![i] = r.tileObj]
       IN  /\ tileQuerier' = tq
           /\ nullcount' = r.nullcount
           /\ loadQueue' = c.q
           /\ cbCalls' = IF ~c.notify THEN cbCalls
                         ELSE IF c.q.error # "null" THEN Append(cbCalls, CbErr(c.q.error))
                         ELSE Append(cbCalls, CbOk(tq))
    /\ reports' = [reports EXCEPT ![i] = Answer(err, data)]
    /\ pc' = IF \A j \in 1..Len(reports) : j # i => reports[j] # Pending
             THEN "settled" ELSE "loading"
    /\ UNCHANGED <<sm, queryPoints, options, zoom, tileSize, loaderCalls, thrown,
                   imageSize, mqCalls, calls>>

LoaderReturnsData == \E i \in 1..Len(tileQuerier), img \in Images : LoaderAnswers(i, "null", img)
LoaderTileDoesNotExist == \E i \in 1..Len(tileQuerier) : LoaderAnswers(i, NotFound, NoData)
LoaderFails == \E i \in 1..Len(tileQuerier), e \in HardErrors : LoaderAnswers(i, e, NoData)

Succeeded == cbCalls # << >> /\ cbCalls[Len(cbCalls)].err = "null"

\* multiQuery(tiles, size, callback) on the tile objects loadTiles delivered
MultiQueryCall(size) ==
    /\ pc = "settled"
    /\ Succeeded
    /\ imageSize' = size
    /\ mqCalls' = Append(mqCalls, multiQuery(sm, cbCalls[Len(cbCalls)].res, size))
    /\ pc' = "sampled"
    /\ calls' = Append(calls,
          IF \E i \in 1..Len(tileQuerier) :
                /\ ~tileQuerier[i].empty
                /\ getPixelsProjects(tileQuerier[i].data, tileQuerier[i].points, size)
                /\ \A j \in 1..(i - 1) : sampleTile(sm, tileQuerier[j], size).err = "null"
          THEN Projecting("multiQuery", size, sm)
          ELSE NotProjecting("multiQuery", size))
    /\ UNCHANGED <<sm, queryPoints, options, zoom, tileSize, tileQuerier, loaderCalls,
                   reports, nullcount, loadQueue, cbCalls, thrown>>

Next ==
    \/ \E points \in PointLists, opts \in OptionSets : LoadTilesCall(points, opts)
    \/ LoaderReturnsData
    \/ LoaderTileDoesNotExist
    \/ LoaderFails
    \/ \E size \in TileSizes : MultiQueryCall(size)

Spec == Init /\ [][Next]_vars

\* ------------------------------------------------ buildQuery, called alone
\* No call has delivered or recorded anything yet
NothingDone ==
    /\ pc = "idle"
    /\ tileQuerier = << >>
    /\ loaderCalls = << >>
    /\ reports = << >>
    /\ nullcount = 0
    /\ loadQueue = EmptyQueue
    /\ cbCalls = << >>
    /\ thrown = FALSE
    /\ imageSize = Undefined
    /\ mqCalls = << >>
    /\ calls = << >>

\* The arguments of buildQuery(queryPoints, zoom), in a module whose adapter
\* is built already, for either tile size
InitBuild ==
    /\ NothingDone
    /\ sm \in TileSizes
    /\ queryPoints \in PointLists
    /\ zoom \in (0..MaxZoomLevel) \cup {NaN}
    /\ options = NoOptions
    /\ tileSize = Undefined

\* buildQuery(queryPoints, zoom): with no adapter built, sm.xyz of line 115
\* throws a TypeError at the first point
BuildQueryCall ==
    /\ pc = "idle"
    /\ IF queryPoints = << >>
       THEN /\ tileQuerier' = << >>
            /\ calls' = Append(calls, NotProjecting("buildQuery", Undefined))
            /\ UNCHANGED thrown
       ELSE IF sm = Undefined
       THEN /\ thrown' = TRUE
            /\ calls' = Append(calls, Projecting("buildQuery", Undefined, sm))
            /\ UNCHANGED tileQuerier
       ELSE /\ tileQuerier' = buildQuery(sm, queryPoints, zoom)
            /\ calls' = Append(calls, Projecting("buildQuery", Undefined, sm))
            /\ UNCHANGED thrown
    /\ pc' = "done"
    /\ UNCHANGED <<sm, queryPoints, options, zoom, tileSize, loaderCalls, reports,
                   nullcount, loadQueue, cbCalls, imageSize, mqCalls>>

NextBuild == BuildQueryCall

SpecBuild == InitBuild /\ [][NextBuild]_vars

\* ---------------------------------------------- estimateZoom, called alone
\* The arguments of estimateZoom(queryPoints, minZoom, maxZoom, tileSize): a
\* non-empty list of 2-element points and minZoom <= maxZoom (held in
\* options), in a module whose adapter is not built yet
ZoomInputs ==
    {o \in [minZoom : 0..MaxZoomLevel, maxZoom : 0..MaxZoomLevel,
            zoom : {Undefined}, tileSize : TileSizes] : o.minZoom <= o.maxZoom}

InitZoom ==
    /\ NothingDone
    /\ sm = Undefined
    /\ queryPoints \in SeqsUpTo(ValidPoints, MaxPoints) \ {<< >>}
    /\ options \in ZoomInputs
    /\ zoom = Undefined
    /\ tileSize = Undefined

EstimateZoomCall ==
    /\ pc = "idle"
    /\ zoom' = estimateZoom(queryPoints, options.minZoom, options.maxZoom,
                            options.tileSize)
    /\ sm' = IF Len(queryPoints) # 1 /\ sm = Undefined THEN options.tileSize ELSE sm
    /\ calls' = Append(calls,
          IF Len(queryPoints) = 1 THEN NotProjecting("estimateZoom", options.tileSize)
          ELSE Projecting("estimateZoom", options.tileSize, sm'))
    /\ pc' = "done"
    /\ UNCHANGED <<queryPoints, options, tileSize, tileQuerier, loaderCalls, reports,
                   nullcount, loadQueue, cbCalls, thrown, imageSize, mqCalls>>

NextZoom == EstimateZoomCall

SpecZoom == InitZoom /\ [][NextZoom]_vars

\* ------------------------------------------------- getPixels, called alone
\* The images getPixels is given: a tile of either size and a non-square one
PixelImages == Images \cup {Image(BigTileSize, BigTileSize)}

\* The tiles of the pyramid down to MaxZoomLevel
TileCoords ==
    {t \in [z : 0..MaxZoomLevel, x : 0..(Pow2(MaxZoomLevel) - 1),
            y : 0..(Pow2(MaxZoomLevel) - 1)] :
        t.x < Pow2(t.z) /\ t.y < Pow2(t.z)}

\* Coordinates as getPixels takes them, [lng, lat], for a list of [lat, lng]
\* points, and their ids
LngLat(points) == [k \in 1..Len(points) |-> <<points[k][2], points[k][1]>>]
IdsOf(points) == [k \in 1..Len(points) |-> k - 1]

\* The arguments of getPixels(imageBuffer, coords, zxy, tileSize, ids), held
\* in one tile object, in a module whose adapter was built for tileSize
InitPixels ==
    /\ pc = "idle"
    /\ tileSize \in TileSizes
    /\ sm = tileSize
    /\ queryPoints \in SeqsUpTo(ValidPoints, MaxPoints)
    /\ \E img \in PixelImages, t \in TileCoords :
          tileQuerier = << [zxy |-> t, points |-> LngLat(queryPoints),
                           pointIDs |-> IdsOf(queryPoints), data |-> img,
                           empty |-> FALSE] >>
    /\ options = NoOptions
    /\ zoom = Undefined
    /\ loaderCalls = << >>
    /\ reports = << >>
    /\ nullcount = 0
    /\ loadQueue = EmptyQueue
    /\ cbCalls = << >>
    /\ thrown = FALSE
    /\ imageSize = Undefined
    /\ mqCalls = << >>
    /\ calls = << >>

\* getPixels(data, points, zxy, tileSize, pointIDs, callback) for the tile
\* object held: with no adapter built, sm.px of line 64 throws a TypeError
GetPixelsCall ==
    /\ pc = "idle"
    /\ Len(tileQuerier) = 1
    /\ LET t == tileQuerier[1]
           projects == getPixelsProjects(t.data, t.points, tileSize)
       IN  /\ calls' = Append(calls, IF projects THEN Projecting("getPixels", tileSize, sm)
                                     ELSE NotProjecting("getPixels", tileSize))
           /\ IF projects /\ sm = Undefined
              THEN thrown' = TRUE /\ UNCHANGED mqCalls
              ELSE /\ mqCalls' = << getPixels(sm, t.data, t.points, t.zxy, tileSize,
                                              t.pointIDs) >>
                   /\ UNCHANGED thrown
    /\ pc' = "done"
    /\ UNCHANGED <<sm, queryPoints, options, zoom, tileSize, tileQuerier, loaderCalls,
                   reports, nullcount, loadQueue, cbCalls, imageSize>>

NextPixels == GetPixelsCall

SpecPixels == InitPixels /\ [][NextPixels]_vars

\* ------------------------------------------- several calls in one process
\* The calls a process makes, one after the other
MaxCalls == 2

\* The arguments of the calls: one point or two, the zoom bounds, either
\* tile size
CallPoints == {<<PA>>, <<PA, PC>>}
CallOptions == [minZoom : {0}, maxZoom : {MaxZoomLevel}, zoom : {Undefined},
                tileSize : TileSizes]

\* The tile object getPixels is called with: the tile of the first point at
\* MaxZoomLevel for tiles of size ts, loaded with an image of that size
CallTile(points, ts) ==
    [buildQuery(ts, <<points[1]>>, MaxZoomLevel)[1] EXCEPT !.data = Image(ts, ts)]

\* A freshly loaded module and the arguments of its first call
InitCalls ==
    /\ sm = Undefined
    /\ calls = << >>
    /\ pc = "idle"
    /\ queryPoints \in CallPoints
    /\ options \in CallOptions
    /\ zoom = MaxZoomLevel
    /\ tileSize = options.tileSize
    /\ tileQuerier = << CallTile(queryPoints, tileSize) >>
    /\ loaderCalls = << >>
    /\ reports = << >>
    /\ nullcount = 0
    /\ loadQueue = EmptyQueue
    /\ cbCalls = << >>
    /\ thrown = FALSE
    /\ imageSize = Undefined
    /\ mqCalls = << >>

\* loadTiles(queryPoints, options, loader, callback) up to its return
LoadTilesWithArgs == LoadTilesCall(queryPoints, options)

\* The caller, back from a call (or from its exception), turns to its next
\* call: the module keeps sm, everything else belongs to the new call
CallerGoesOn ==
    /\ pc # "idle"
    /\ Len(calls) < MaxCalls
    /\ pc' = "idle"
    /\ queryPoints' \in CallPoints
    /\ options' \in CallOptions
    /\ zoom' = MaxZoomLevel
    /\ tileSize' = options'.tileSize
    /\ tileQuerier' = << CallTile(queryPoints', tileSize') >>
    /\ loaderCalls' = << >>
    /\ reports' = << >>
    /\ nullcount' = 0
    /\ loadQueue' = EmptyQueue
    /\ cbCalls' = << >>
    /\ thrown' = FALSE
    /\ imageSize' = Undefined
    /\ mqCalls' = << >>
    /\ UNCHANGED <<sm, calls>>

NextCalls ==
    \/ LoadTilesWithArgs
    \/ EstimateZoomCall
    \/ BuildQueryCall
    \/ GetPixelsCall
    \/ CallerGoesOn

SpecCalls == InitCalls /\ [][NextCalls]_vars

\* ================================================================ claims
N == Len(queryPoints)
MqOk == mqCalls # << >> /\ mqCalls[1].err = "null"
Out == mqCalls[1].out

\* The point ids of the tile objects, tile after tile
FlatIDs == Concat([i \in 1..Len(tileQuerier) |-> tileQuerier[i].pointIDs])
Ascending(ids) == \A k \in 1..(Len(ids) - 1) : ids[k] <= ids[k + 1]

AllSettled == pc \in {"settled", "sampled"}
Reported(e) == {i \in 1..Len(reports) : reports[i].err = e}
HardReported == {i \in 1..Len(reports) : reports[i].err \in HardErrors}

\* C1: the samples a successful multiQuery delivers are in ascending order of
\* id, for every mix of empty and loaded tiles and every order in which the
\* tiles were answered.
C1_SortedById ==
    MqOk => Ascending([k \in 1..Len(Out) |-> Out[k].id])

\* A success over an empty and a loaded tile whose ids, tile after tile, are
\* not in order.
C1_Witness ==
    /\ MqOk
    /\ \E i, j \in 1..Len(tileQuerier) : tileQuerier[i].empty /\ ~tileQuerier[j].empty
    /\ ~Ascending(FlatIDs)

\* C2: for N valid points, a successful loadTiles followed by a successful
\* multiQuery delivers exactly N samples, and every id of 0..N-1 is the id of
\* exactly one of them.
C2_OneSamplePerPoint ==
    (MqOk /\ AllValid(queryPoints)) =>
        /\ Len(Out) = N
        /\ \A id \in 0..(N - 1) : Cardinality({k \in 1..Len(Out) : Out[k].id = id}) = 1

\* A success for three points or more of which some lie in a not-found tile
\* and two share a tile.
C2_Witness ==
    /\ MqOk
    /\ AllValid(queryPoints)
    /\ N >= 3
    /\ \E i \in 1..Len(tileQuerier) : tileQuerier[i].empty
    /\ \E i \in 1..Len(tileQuerier) : Len(tileQuerier[i].pointIDs) >= 2

\* C3: for valid points, the sample at position k of a successful output
\* carries lat = the first and lng = the second component of input point k.
C3_InputOrderRestored ==
    (MqOk /\ AllValid(queryPoints)) =>
        /\ Len(Out) = N
        /\ \A k \in 1..N : Out[k].latlng = [lat |-> queryPoints[k][1],
                                            lng |-> queryPoints[k][2]]

\* A success for pairwise distinct points grouped so that the ids, tile after
\* tile, are not in input order.
C3_Witness ==
    /\ MqOk
    /\ AllValid(queryPoints)
    /\ ~Ascending(FlatIDs)
    /\ Len(tileQuerier) >= 2
    /\ \E k, l \in 1..N : queryPoints[k] # queryPoints[l]

\* C4: buildQuery partitions the indices: every index of 0..N-1 is in the
\* pointIDs of exactly one tile object, once; no other id occurs; no two tile
\* objects have the same (z, x, y); and the tile object holding index i has
\* the (zoom, x, y) of the tile the projection reports for point i.
C4_Partition ==
    pc = "done" =>
        /\ \A id \in 0..(N - 1) :
              Cardinality({<<i, j>> \in (1..Len(tileQuerier)) \X (1..N) :
                              /\ j <= Len(tileQuerier[i].pointIDs)
                              /\ tileQuerier[i].pointIDs[j] = id}) = 1
        /\ \A i \in 1..Len(tileQuerier) :
              \A j \in 1..Len(tileQuerier[i].pointIDs) :
                 /\ tileQuerier[i].pointIDs[j] \in 0..(N - 1)
                 /\ LET t == TileOf(sm, queryPoints[tileQuerier[i].pointIDs[j] + 1], zoom)
                    IN  tileQuerier[i].zxy = [z |-> zoom, x |-> t.minX, y |-> t.minY]
        /\ \A i, j \in 1..Len(tileQuerier) :
              i # j => tileQuerier[i].zxy # tileQuerier[j].zxy

\* A partition into two tiles or more in which one tile holds two points that
\* are not neighbours in the input.
C4_Witness ==
    /\ pc = "done"
    /\ Len(tileQuerier) >= 2
    /\ \E i \in 1..Len(tileQuerier) :
          /\ Len(tileQuerier[i].pointIDs) >= 2
          /\ tileQuerier[i].pointIDs[2] > tileQuerier[i].pointIDs[1] + 1

\* C5: when every tile's loader call has answered 'Tile does not exist', in
\* whatever order, the callback of loadTiles has received the no-data error,
\* once, and no tile objects.
C5_AllNotFoundFails ==
    (AllSettled /\ Reported(NotFound) = 1..Len(reports)) =>
        cbCalls = <<CbErr(NoDataError)>>

\* Two tiles or more, all answered not-found.
C5_Witness ==
    /\ AllSettled
    /\ Len(reports) >= 2
    /\ Reported(NotFound) = 1..Len(reports)

\* C6: as long as no loader call has reported a hard error and not every tile
\* is not-found, no error is delivered; and once all calls have answered with
\* some tile returning data, loadTiles has succeeded with tile objects of
\* which each not-found one is empty (data '') and each other one carries the
\* bytes its loader call returned.
C6_NotFoundAbsorbed ==
    /\ (HardReported = {} /\ Reported(NotFound) # 1..Len(reports)) =>
          \A c \in 1..Len(cbCalls) : cbCalls[c].err = "null"
    /\ (AllSettled /\ HardReported = {} /\ Reported("null") # {}) =>
          /\ cbCalls = <<CbOk(tileQuerier)>>
          /\ \A i \in 1..Len(reports) :
                IF reports[i].err = NotFound
                THEN tileQuerier[i].empty /\ tileQuerier[i].data = EmptyData
                ELSE ~tileQuerier[i].empty /\ tileQuerier[i].data = reports[i].data

\* A success in which the first answer was a not-found and a later one data.
C6_Witness ==
    /\ AllSettled
    /\ Succeeded
    /\ Reported(NotFound) # {}
    /\ Reported("null") # {}
    /\ Len(reports) >= 3

\* C7: the step in which a loader call reports the first error other than
\* 'Tile does not exist' hands that error to the callback of loadTiles, with
\* other loads still pending or not; after that no answer of a loader makes
\* the callback be called again.
C7_HardErrorAborts ==
    [][ /\ \A i \in 1..Len(reports) :
             (cbCalls = << >> /\ reports[i] = Pending /\ reports'[i].err \in HardErrors)
                => cbCalls' = <<CbErr(reports'[i].err)>>
        /\ (cbCalls # << >> /\ cbCalls[1].err \in HardErrors) => cbCalls' = cbCalls
      ]_vars

\* A hard error was delivered, after which a loader returned data, another a
\* different hard error, and every call has answered.
C7_Witness ==
    /\ AllSettled
    /\ cbCalls = <<CbErr("ECONNRESET")>>
    /\ Reported("ETIMEDOUT") # {}
    /\ Reported("null") # {}

\* C8: loadTiles called with an empty list of points, or with a list in which
\* some point is not a 2-element coordinate, delivers the invalid-input error
\* to its callback (stated here for calls whose options hold both zoom
\* bounds, so that no other validation error is due).
C8_InvalidPointsRejected ==
    (/\ pc # "idle"
     /\ options.minZoom # Undefined
     /\ options.maxZoom # Undefined
     /\ (queryPoints = << >> \/ ~AllValid(queryPoints))) =>
        /\ cbCalls # << >>
        /\ cbCalls[1].err = "Invalid query points"

\* C9: loadTiles called with options that lack minZoom or maxZoom does no
\* partial work: no adapter is built, no tile object is built and the loader
\* is never invoked, with options.zoom given or not; and for a list of
\* 2-element points its callback has received the missing-configuration
\* error, once.
C9_MissingZoomBoundsFailFast ==
    (pc # "idle" /\ (options.minZoom = Undefined \/ options.maxZoom = Undefined)) =>
        /\ sm = Undefined
        /\ tileQuerier = << >>
        /\ loaderCalls = << >>
        /\ pc = "done"
        /\ (queryPoints # << >> /\ AllValid(queryPoints)) =>
              \/ cbCalls = <<CbErr("Max zoom must be specified")>>
              \/ cbCalls = <<CbErr("Min zoom must be specified")>>

\* A call with valid points, the zoom pinned and minZoom missing.
C9_Witness ==
    /\ pc = "done"
    /\ queryPoints # << >>
    /\ AllValid(queryPoints)
    /\ options.zoom # Undefined
    /\ options.minZoom = Undefined
    /\ options.maxZoom # Undefined
    /\ cbCalls = <<CbErr("Min zoom must be specified")>>

\* C10: for a non-empty list of points and minZoom <= maxZoom, estimateZoom
\* returns a zoom z with minZoom <= z <= maxZoom, and maxZoom for one point.
C10_ZoomInRange ==
    pc = "done" =>
        /\ IsNum(zoom)
        /\ options.minZoom <= zoom
        /\ zoom <= options.maxZoom
        /\ (N = 1 => zoom = options.maxZoom)

\* ------------------------------------------------------------------ C11
\* The local pixel of coords[k] in the tile getPixels was given
LocalXY(k) ==
    getPixelXY(Mul(tileQuerier[1].zxy.x, tileSize), Mul(tileQuerier[1].zxy.y, tileSize),
               px(sm, tileQuerier[1].points[k], tileQuerier[1].zxy.z))
OutsideTile(v) == v >= tileSize \/ v < 0
RightSize == tileQuerier[1].data.w = tileSize /\ tileQuerier[1].data.h = tileSize

\* C11: getPixels on a tile of the right size answers the out-of-bounds error,
\* and no samples, whenever the local pixel of some point is >= tileSize or
\* negative on either axis; so the pixels of a successful answer were all
\* read inside the tile.
C11_OutsideTileRejected ==
    (pc = "done" /\ RightSize) =>
        /\ (\E k \in 1..Len(tileQuerier[1].points) :
                OutsideTile(LocalXY(k).x) \/ OutsideTile(LocalXY(k).y))
              => mqCalls = << Err(OutOfTile) >>
        /\ mqCalls[1].err = "null" =>
              \A k \in 1..Len(mqCalls[1].out) : mqCalls[1].out[k].pixel.kind = "colour"

\* ------------------------------------------------------------------ C12
\* C12: getPixels answers the invalid-tile error naming z/x/y for an image
\* whose width differs from its height, and the size-mismatch error for a
\* square image whose width differs from tileSize; either way without
\* samples, whatever the points.
C12_BadImageRejected ==
    pc = "done" =>
        LET img == tileQuerier[1].data
            t == tileQuerier[1].zxy
        IN  /\ Len(mqCalls) = 1
            /\ img.w # img.h =>
                  /\ mqCalls[1].err = "Invalid tile at " \o ToString(t.z) \o "/"
                                        \o ToString(t.x) \o "/" \o ToString(t.y)
                  /\ mqCalls[1].out = << >>
            /\ (img.w = img.h /\ img.w # tileSize) =>
                  /\ mqCalls[1].err = SizeMismatch(tileSize, img)
                  /\ mqCalls[1].out = << >>

\* getPixels was given two points and a non-square image of tile 2/3/1
C12_Witness ==
    /\ pc = "done"
    /\ Len(tileQuerier[1].points) = 2
    /\ tileQuerier[1].data.w # tileQuerier[1].data.h
    /\ mqCalls[1].err = "Invalid tile at 2/3/1"

\* ------------------------------------------------------------------ C13
\* The tile object holding the point of id, and the point's place in it
TileOfId(id) == CHOOSE i \in 1..Len(tileQuerier) :
                    \E j \in 1..Len(tileQuerier[i].pointIDs) : tileQuerier[i].pointIDs[j] = id
PlaceOfId(id) == CHOOSE j \in 1..Len(tileQuerier[TileOfId(id)].pointIDs) :
                    tileQuerier[TileOfId(id)].pointIDs[j] = id

\* The colour of the image of tile object t at the position of its j-th
\* point: the point's global pixel at the tile's zoom less the tile's origin
ColourAt(t, j) ==
    LET g == px(tileSize, t.points[j], t.zxy.z)
    IN  [kind |-> "colour", x |-> Sub(g[1], Mul(t.zxy.x, tileSize)),
         y |-> Sub(g[2], Mul(t.zxy.y, tileSize))]

FailingTiles ==
    {i \in 1..Len(tileQuerier) : sampleTile(sm, tileQuerier[i], imageSize).err # "null"}

RECURSIVE SumLen(_)
SumLen(seqs) == IF seqs = << >> THEN 0 ELSE Len(Head(seqs)) + SumLen(Tail(seqs))

\* C14: the callback of multiQuery is called once; if the sampling of some
\* tile object fails, wherever it stands among the tiles, it receives the
\* error of a failing tile and no samples; otherwise no error and one sample
\* for each point of every tile object.
C14_NoPartialSuccess ==
    pc = "sampled" =>
        LET failing == FailingTiles
        IN  /\ Len(mqCalls) = 1
            /\ failing # {} =>
                  /\ mqCalls[1].out = << >>
                  /\ \E i \in failing :
                        mqCalls[1].err = sampleTile(sm, tileQuerier[i], imageSize).err
            /\ failing = {} =>
                  /\ mqCalls[1].err = "null"
                  /\ Len(mqCalls[1].out) =
                        SumLen([i \in 1..Len(tileQuerier) |-> tileQuerier[i].points])

\* The first tile object samples well, the last one fails, and multiQuery
\* has answered
C14_Witness ==
    /\ pc = "sampled"
    /\ Len(tileQuerier) >= 2
    /\ FailingTiles = {Len(tileQuerier)}
    /\ mqCalls[1].err # "null"
    /\ mqCalls[1].out = << >>

\* ------------------------------------------------------------------ C15
\* points and pointIDs of tile object t have one length, and points[j] is the
\* [lng, lat] of the input point of index pointIDs[j]
Aligned(t) ==
    /\ Len(t.points) = Len(t.pointIDs)
    /\ \A j \in 1..Len(t.pointIDs) :
          /\ t.pointIDs[j] \in 0..(N - 1)
          /\ t.points[j] = << At(queryPoints[t.pointIDs[j] + 1], 2),
                              At(queryPoints[t.pointIDs[j] + 1], 1) >>

\* C15: in every state of a query, from the partition through the loads in
\* any order to the sampling, the points and pointIDs of each tile object
\* (of those delivered to the caller too) have the same length and are
\* aligned position by position.
C15_PointsAlignedWithIds ==
    /\ \A i \in 1..Len(tileQuerier) : Aligned(tileQuerier[i])
    /\ \A c \in 1..Len(cbCalls) : \A i \in 1..Len(cbCalls[c].res) : Aligned(cbCalls[c].res[i])

\* Some loads have answered, one is pending, and a tile object holds the
\* first and the last of three points
C15_Witness ==
    /\ pc = "loading"
    /\ \E i \in 1..Len(reports) : reports[i] # Pending
    /\ \E i \in 1..Len(tileQuerier) : tileQuerier[i].pointIDs = <<0, 2>>

\* ------------------------------------------------------------------ C16
\* C16: over any sequence of loadTiles, estimateZoom and getPixels calls of
\* one process, with different tile sizes too, an operation that projects a
\* point does so with an adapter constructed for the tile size it was given.
C16_AdapterOfGivenSize ==
    \A k \in 1..Len(calls) :
        (calls[k].projects /\ calls[k].given # Undefined /\ calls[k].adapter # Undefined)
            => calls[k].adapter = calls[k].given

\* ------------------------------------------------------------------ C17
\* C17: whichever operation is called first in a process, the adapter exists
\* when the operation projects a point; none runs without an adapter.
C17_AdapterBuiltBeforeUse ==
    \A k \in 1..Len(calls) : calls[k].projects => calls[k].adapter # Undefined

\* ------------------------------------------------------------------ C18
\* The tile of input point k at the zoom of the query
TileOfPoint(k) ==
    LET t == TileOf(sm, queryPoints[k], zoom)
    IN  [z |-> zoom, x |-> t.minX, y |-> t.minY]

\* C18: once a loadTiles call has passed validation, and already before any
\* load has answered, the loader has been invoked once for each distinct tile
\* of the partition, with that tile's (z, x, y), and for no tile twice; no
\* invocation is made later.
C18_OneLoadPerTile ==
    pc \in {"loading", "settled", "sampled"} =>
        /\ Len(loaderCalls) = Len(tileQuerier)
        /\ \A i \in 1..Len(loaderCalls) : loaderCalls[i] = tileQuerier[i].zxy
        /\ \A i, j \in 1..Len(loaderCalls) : loaderCalls[i] = loaderCalls[j] => i = j
        /\ {loaderCalls[i] : i \in 1..Len(loaderCalls)} = {TileOfPoint(k) : k \in 1..N}

\* Three points in two tiles: both tiles have been asked for and no load has
\* answered yet
C18_Witness ==
    /\ pc = "loading"
    /\ N = 3
    /\ Len(loaderCalls) = 2
    /\ \A i \in 1..Len(reports) : reports[i] = Pending

\* ------------------------------------------------------------------ C19
\* Tile object i holds the bytes its load answered and is not marked empty
Loaded(i) ==
    /\ tileQuerier[i].data.kind = "image"
    /\ tileQuerier[i].data = reports[i].data
    /\ ~tileQuerier[i].empty
\* Tile object i is marked empty, with empty data
Emptied(i) == tileQuerier[i].empty /\ tileQuerier[i].data = EmptyData

\* C19 as stated, its outcome part: when the loads have settled each tile
\* object has received exactly one of the loader's bytes or the empty mark.
C19_EachTileLoadedOrEmptied ==
    AllSettled => \A i \in 1..Len(tileQuerier) : Loaded(i) # Emptied(i)

\* C19 as amended: once buildQuery has made the tile objects, a step changes
\* none of zxy, points and pointIDs; a tile object changes only in the step
\* in which its own load answers, to hold the loader's bytes (answer with
\* data) or the empty mark with empty data (not found), and it stays as it
\* is when the load fails with another error; multiQuery with getPixels and
\* emptyPixelResponse changes no tile object.
C19_OnlyLoadWritesDataOrEmpty ==
    [][pc # "idle" =>
        /\ Len(tileQuerier') = Len(tileQuerier)
        /\ \A i \in 1..Len(tileQuerier) :
              LET t == tileQuerier[i]
                  u == tileQuerier'[i]
                  answered == reports[i] = Pending /\ reports'[i] # Pending
              IN  /\ u.zxy = t.zxy
                  /\ u.points = t.points
                  /\ u.pointIDs = t.pointIDs
                  /\ u # t => (pc = "loading" /\ answered)
                  /\ (answered /\ reports'[i].err = "null") =>
                        (u = [t EXCEPT !.data = reports'[i].data] /\ ~u.empty)
                  /\ (answered /\ reports'[i].err = NotFound) =>
                        u = [t EXCEPT !.data = EmptyData, !.empty = TRUE]
                  /\ (answered /\ reports'[i].err \in HardErrors) => u = t
    ]_vars

\* Three loads have answered, one with data, one not found and one with
\* another error
C19_Witness ==
    /\ pc = "settled"
    /\ \E i, j, k \in 1..Len(tileQuerier) :
          /\ Loaded(i)
          /\ Emptied(j) /\ reports[j].err = NotFound
          /\ reports[k].err \in HardErrors
          /\ tileQuerier[k].data = NoData
          /\ ~tileQuerier[k].empty

\* ------------------------------------------------------------------ C20
\* C20: a loadTiles call invokes the caller's callback exactly once, whatever
\* the order in which the loads answer: at no time has the callback been
\* invoked twice, when the call is over and every loader invocation has
\* answered it has been invoked once, and a success is only delivered when
\* no load is pending.
C20_CallbackExactlyOnce ==
    /\ Len(cbCalls) <= 1
    /\ pc \in {"done", "settled", "sampled"} => Len(cbCalls) = 1
    /\ Succeeded => \A i \in 1..Len(reports) : reports[i] # Pending
====
